---- MODULE Spec2Model ----
(***************************************************************************)
(* Model of geosx_mesh_doctor/checks/generate_fractures_2.py: the split of *)
(* an unstructured mesh along the fracture defined by a per-cell field.    *)
(*                                                                         *)
(* Ids are 0-based as in the source.  A face is the tuple of its point ids *)
(* (a TLA+ sequence, positions 1..n); a cell is the tuple of its faces,    *)
(* and local face index i of the source is position i + 1 of that tuple.   *)
(* Python dicts keep insertion order; Python sets have no specified        *)
(* iteration order, so every loop over a set whose order reaches an output *)
(* is a nondeterministic choice of that order.                             *)
(***************************************************************************)
EXTENDS Integers, Sequences, FiniteSets, TLC

\* Bounds of the input space.
MaxCells == 2
MaxField == 3

FieldVals == 1..MaxField

---------------------------------------------------------------------------
(* Generic helpers. *)

Range(s) == {s[i] : i \in 1..Len(s)}

Max(S) == CHOOSE x \in S : \A y \in S : y <= x

Min2(a, b) == IF a <= b THEN a ELSE b

\* All orders in which a finite set can be iterated.
Perms(S) ==
  {s \in [1..Cardinality(S) -> S] : \A i, j \in 1..Cardinality(S) : s[i] = s[j] => i = j}

\* The elements of a set of integers in ascending order (Python's sorted).
RECURSIVE Sorted(_)
Sorted(S) ==
  IF S = {} THEN <<>>
  ELSE LET m == CHOOSE x \in S : \A y \in S : x <= y IN <<m>> \o Sorted(S \ {m})

---------------------------------------------------------------------------
(* The input meshes.  A mesh is [np, nc, cells, ctype, points, pdata]:     *)
(* np points, nc cells, cells[c] the faces of cell c, ctype[c] its type    *)
(* tag, points[p] the coordinates of p, pdata[p] a per-point data array.   *)

MkMesh(np, nc, cells, type) ==
  [np     |-> np,
   nc     |-> nc,
   cells  |-> cells,
   ctype  |-> [c \in 0..(nc - 1) |-> type],
   points |-> [p \in 0..(np - 1) |-> <<p, 10 + p>>],
   pdata  |-> [p \in 0..(np - 1) |-> 100 + p]]

\* k cells around the centre point 0; cell i is (0, i+1, next) and two
\* consecutive cells share the face {0, next}, seen in opposite directions.
FanNext(k, closed, i) == IF closed THEN ((i + 1) % k) + 1 ELSE i + 2

FanCell(k, closed, i) ==
  << <<0, i + 1>>, <<i + 1, FanNext(k, closed, i)>>, <<FanNext(k, closed, i), 0>> >>

Fan(k, closed) ==
  MkMesh(IF closed THEN k + 1 ELSE k + 2, k,
         [i \in 0..(k - 1) |-> FanCell(k, closed, i)], "polyhedron")

\* Malformed: three cells share the face {0, 1}.
Book3 ==
  MkMesh(5, 3, [i \in 0..2 |-> << <<0, 1>>, <<1, i + 2>>, <<i + 2, 0>> >>], "polyhedron")

\* Malformed: the three cells of Book3, and apart from them two cells that
\* share the face {5, 7}.
Book3AndPair ==
  MkMesh(9, 5,
         [i \in 0..2 |-> << <<0, 1>>, <<1, i + 2>>, <<i + 2, 0>> >>] @@
         (3 :> << <<5, 6>>, <<6, 7>>, <<7, 5>> >>) @@
         (4 :> << <<5, 7>>, <<7, 8>>, <<8, 5>> >>), "polyhedron")

\* Two cells sharing the face {0, 2}, and a third cell that touches cell 0
\* at point 1 only.
Pinched ==
  MkMesh(6, 3,
         (0 :> << <<0, 1>>, <<1, 2>>, <<2, 0>> >>) @@
         (1 :> << <<0, 2>>, <<2, 3>>, <<3, 0>> >>) @@
         (2 :> << <<1, 4>>, <<4, 5>>, <<5, 1>> >>), "polyhedron")

\* Two tetrahedra sharing the triangle {1, 2, 3}.
TwoTets ==
  MkMesh(5, 2,
         (0 :> << <<0, 1, 2>>, <<0, 3, 1>>, <<0, 2, 3>>, <<1, 2, 3>> >>) @@
         (1 :> << <<1, 3, 2>>, <<1, 2, 4>>, <<2, 3, 4>>, <<3, 1, 4>> >>), "tetra")

Meshes == {Fan(k, FALSE) : k \in 2..MaxCells} \cup {Fan(3, TRUE), Book3, Book3AndPair, Pinched, TwoTets}

\* The value sets.  The code only tests field values for equality and for
\* membership in the value set, so any value set is one of these up to a
\* renaming of the field values.
ValueSets == {1..j : j \in 0..MaxField}

EmptyMesh == [points |-> <<>>, cells |-> <<>>, ctype |-> <<>>, pdata |-> <<>>, cdata |-> <<>>]

EmptyFractureMesh ==
  [points |-> <<>>, polygons |-> <<>>, ctype |-> <<>>, collocated_nodes |-> <<>>, width |-> 0]

NoRun ==
  [taken |-> FALSE, cell_to_node_mapping |-> <<>>, output_mesh |-> EmptyMesh,
   fracture_mesh |-> EmptyFractureMesh]

---------------------------------------------------------------------------
VARIABLES
  mesh,              \* the input mesh (read-only)
  has_field,         \* whether the named cell field exists on the mesh
  field,             \* f: the cell field, cell id -> value
  field_values,      \* options.field_values
  pc,                \* the stage the pipeline is at
  error,             \* the exception that ended the pipeline, or "none"
  cell_id,           \* loop index of the per-cell loops
  cells_to_faces,    \* build_fracture_info: cell id -> recorded local face ids
  face_nodes,        \* FractureInfo.face_nodes
  ntc_keys,          \* keys of FractureInfo.node_to_cells in insertion order
  node_to_cells,     \* FractureInfo.node_to_cells
  cell_to_cell,      \* the cell to cell graph [nodes, edges]
  todo,              \* __identify_split: the nodes not yet processed
  current_last_index,\* NewIndex.__current_last_index
  seen,              \* NewIndex.__seen
  result,            \* cell_to_node_mapping: <<cell, node>> -> new index
  collocated_nodes,  \* __perform_polyhedron_split: new index -> old index
  output_mesh,       \* the split volumetric mesh
  node_3d_to_node_2d,\* __generate_fracture_mesh: 3d node -> 2d node
  fracture_mesh,     \* the fracture mesh
  first_run          \* what an earlier run on the same input returned, if any

vars == <<mesh, has_field, field, field_values, pc, error, cell_id, cells_to_faces,
          face_nodes, ntc_keys, node_to_cells, cell_to_cell, todo, current_last_index,
          seen, result, collocated_nodes, output_mesh, node_3d_to_node_2d, fracture_mesh,
          first_run>>

\* what no stage of the pipeline writes
input_vars == <<mesh, has_field, field, field_values, first_run>>

---------------------------------------------------------------------------
(* The mesh interface used by the source (vtkUnstructuredGrid, vtkCell). *)

GetNumberOfCells(m) == m.nc

GetNumberOfPoints(m) == m.np

GetNumberOfFaces(m, c) == Len(m.cells[c])

\* cell.GetFace(i).GetPointIds(), as a tuple
GetFace(m, c, i) == m.cells[c][i + 1]

FaceSet(fn) == Range(fn)

\* mesh.GetCell(c).GetPointIds(), as a set
CellPoints(m, c) == UNION {FaceSet(m.cells[c][j]) : j \in 1..Len(m.cells[c])}

\* mesh.GetCellNeighbors(cell_id, ptIds, out): the other cells using all of ptIds
GetCellNeighbors(m, c, pts) ==
  {d \in 0..(m.nc - 1) : d # c /\ pts \subseteq CellPoints(m, d)}

---------------------------------------------------------------------------
Init ==
  /\ mesh \in Meshes
  /\ has_field \in BOOLEAN
  /\ field \in [0..(mesh.nc - 1) -> FieldVals]
  /\ field_values \in ValueSets
  /\ pc = "start"
  /\ error = "none"
  /\ cell_id = 0
  /\ cells_to_faces = [c \in 0..(mesh.nc - 1) |-> <<>>]
  /\ face_nodes = <<>>
  /\ ntc_keys = <<>>
  /\ node_to_cells = <<>>
  /\ cell_to_cell = [nodes |-> {}, edges |-> {}]
  /\ todo = {}
  /\ current_last_index = 0
  /\ seen = {}
  /\ result = <<>>
  /\ collocated_nodes = <<>>
  /\ output_mesh = EmptyMesh
  /\ node_3d_to_node_2d = <<>>
  /\ fracture_mesh = EmptyFractureMesh
  /\ first_run = NoRun

\* An exception leaves the pipeline: nothing is returned.
Raise(e) == pc' = "failed" /\ error' = e

---------------------------------------------------------------------------
(* build_fracture_info *)

\* cell_data.HasArray(field), else ValueError
BuildFractureInfoStart ==
  /\ pc = "start"
  /\ IF has_field
       THEN pc' = "scan" /\ error' = error
       ELSE Raise("ValueError")
  /\ cell_id' = 0
  /\ UNCHANGED <<input_vars, cells_to_faces, face_nodes, ntc_keys, node_to_cells,
                 cell_to_cell, todo, current_last_index, seen, result, collocated_nodes,
                 output_mesh, node_3d_to_node_2d, fracture_mesh>>

\* the test on the neighbor cell: fc, fn the field values of the cell and of its neighbor
NeighborQualifiesNoValueCheck(fc, fn, V) == fn # fc

NeighborQualifies(fc, fn, V) == fn # fc /\ fn \in V

Neighbors(c, i) == GetCellNeighbors(mesh, c, FaceSet(GetFace(mesh, c, i)))

\* assert neighbor_cell_ids.GetNumberOfIds() < 2, for every face of the cell
NeighborAssertHoldsUpToTwo(c) ==
  \A i \in 0..(GetNumberOfFaces(mesh, c) - 1) : Cardinality(Neighbors(c, i)) <= 2

NeighborAssertHolds(c) ==
  \A i \in 0..(GetNumberOfFaces(mesh, c) - 1) : Cardinality(Neighbors(c, i)) < 2

\* the local faces of cell c appended to cells_to_faces[c], from face i on
RECURSIVE ScanFaces(_, _)
ScanFaces(c, i) ==
  IF i >= GetNumberOfFaces(mesh, c) THEN <<>>
  ELSE (IF \E d \in Neighbors(c, i) : NeighborQualifies(field[c], field[d], field_values)
          THEN <<i>> ELSE <<>>) \o ScanFaces(c, i + 1)

\* One iteration of the loop over the cells.
ScanCell ==
  /\ pc = "scan"
  /\ cell_id < GetNumberOfCells(mesh)
  /\ IF field[cell_id] \notin field_values
       THEN /\ cell_id' = cell_id + 1
            /\ UNCHANGED <<pc, error, cells_to_faces>>
       ELSE IF ~NeighborAssertHolds(cell_id)
         THEN /\ Raise("AssertionError")
              /\ UNCHANGED <<cell_id, cells_to_faces>>
         ELSE /\ cells_to_faces' = [cells_to_faces EXCEPT ![cell_id] = ScanFaces(cell_id, 0)]
              /\ cell_id' = cell_id + 1
              /\ UNCHANGED <<pc, error>>
  /\ UNCHANGED <<input_vars, face_nodes, ntc_keys, node_to_cells, cell_to_cell, todo,
                 current_last_index, seen, result, collocated_nodes, output_mesh,
                 node_3d_to_node_2d, fracture_mesh>>

\* The tuples of the recorded faces, in the order of cells_to_faces.items():
\* cells by insertion (ascending id), faces in recorded order.
RECURSIVE RecordedFaces(_, _)
RecordedFaces(c2f, c) ==
  IF c >= GetNumberOfCells(mesh) THEN <<>>
  ELSE [j \in 1..Len(c2f[c]) |-> GetFace(mesh, c, c2f[c][j])] \o RecordedFaces(c2f, c + 1)

\* face_nodes / face_nodes_hashes: keep the first tuple of every vertex set
RECURSIVE DedupFacesKeepAll(_, _, _)
DedupFacesKeepAll(fns, j, hashes) ==
  IF j > Len(fns) THEN <<>>
  ELSE <<fns[j]>> \o DedupFacesKeepAll(fns, j + 1, hashes \cup {FaceSet(fns[j])})

RECURSIVE DedupFaces(_, _, _)
DedupFaces(fns, j, hashes) ==
  IF j > Len(fns) THEN <<>>
  ELSE IF FaceSet(fns[j]) \notin hashes
    THEN <<fns[j]>> \o DedupFaces(fns, j + 1, hashes \cup {FaceSet(fns[j])})
    ELSE DedupFaces(fns, j + 1, hashes)

\* End of the scan: the faces of the fracture are extracted.
ExtractFaces ==
  /\ pc = "scan"
  /\ cell_id >= GetNumberOfCells(mesh)
  /\ face_nodes' = DedupFaces(RecordedFaces(cells_to_faces, 0), 1, {})
  /\ pc' = "node_to_cells"
  /\ cell_id' = 0
  /\ UNCHANGED <<input_vars, error, cells_to_faces, ntc_keys, node_to_cells, cell_to_cell,
                 todo, current_last_index, seen, result, collocated_nodes, output_mesh,
                 node_3d_to_node_2d, fracture_mesh>>

---------------------------------------------------------------------------
(* build_node_to_cells *)

FractureNodes(fns) == UNION {FaceSet(fns[j]) : j \in 1..Len(fns)}

\* intersection: the fracture nodes of cell c
CellFractureNodes(c, fns) == CellPoints(mesh, c) \cap FractureNodes(fns)

\* node_to_cells[node].add(cell_id) for every node of the intersection
AddCell(ntc, nodes, c) ==
  [n \in DOMAIN ntc \cup nodes |->
     (IF n \in DOMAIN ntc THEN ntc[n] ELSE {}) \cup (IF n \in nodes THEN {c} ELSE {})]

\* One iteration of the loop over the cells.  The intersection is a set: the
\* nodes it adds to the dict are inserted in any order.
NodeToCellsStep ==
  /\ pc = "node_to_cells"
  /\ cell_id < GetNumberOfCells(mesh)
  /\ LET inter == CellFractureNodes(cell_id, face_nodes)
     IN /\ \E order \in Perms(inter \ DOMAIN node_to_cells) : ntc_keys' = ntc_keys \o order
        /\ node_to_cells' = AddCell(node_to_cells, inter, cell_id)
  /\ cell_id' = cell_id + 1
  /\ UNCHANGED <<input_vars, pc, error, cells_to_faces, face_nodes, cell_to_cell, todo,
                 current_last_index, seen, result, collocated_nodes, output_mesh,
                 node_3d_to_node_2d, fracture_mesh>>

---------------------------------------------------------------------------
(* build_cell_to_cell_graph *)

FaceHashes(fns) == {FaceSet(fns[j]) : j \in 1..Len(fns)}

\* cells: the cells that touch the fracture by at least one node
TouchingCells(ntc) == UNION {ntc[n] : n \in DOMAIN ntc}

\* the (cell, local face) pairs visited by the loops over cells and faces
CellFaces(cells) ==
  UNION {{<<c, i>> : i \in 0..(GetNumberOfFaces(mesh, c) - 1)} : c \in cells}

\* face_to_cells[h], as the (cell, face) pairs appended under the hash h
FaceToCells(cells, hashes, h) ==
  {cf \in CellFaces(cells) : FaceSet(GetFace(mesh, cf[1], cf[2])) = h /\ h \notin hashes}

AllFaceHashes(cells) == {FaceSet(GetFace(mesh, cf[1], cf[2])) : cf \in CellFaces(cells)}

\* the edges added: one per face hash with exactly two cells
GraphEdges(cells, hashes) ==
  {{cf[1] : cf \in FaceToCells(cells, hashes, h)} :
     h \in {g \in AllFaceHashes(cells) : Cardinality(FaceToCells(cells, hashes, g)) = 2}}

\* build_fracture_info has returned; the graph is built.
BuildCellToCellGraph ==
  /\ pc = "node_to_cells"
  /\ cell_id >= GetNumberOfCells(mesh)
  /\ LET cells == TouchingCells(node_to_cells)
     IN cell_to_cell' = [nodes |-> cells, edges |-> GraphEdges(cells, FaceHashes(face_nodes))]
  /\ pc' = "identify_start"
  /\ UNCHANGED <<input_vars, error, cell_id, cells_to_faces, face_nodes, ntc_keys,
                 node_to_cells, todo, current_last_index, seen, result, collocated_nodes,
                 output_mesh, node_3d_to_node_2d, fracture_mesh>>

---------------------------------------------------------------------------
(* __identify_split *)

\* cell_to_cell.subgraph(cells)
Subgraph(g, cells) ==
  [nodes |-> g.nodes \cap cells, edges |-> {e \in g.edges : e \subseteq cells}]

\* the nodes reached from the set S (breadth first)
RECURSIVE PlainBfs(_, _)
PlainBfs(g, S) ==
  LET next == S \cup {v \in g.nodes : \E u \in S : {u, v} \in g.edges}
  IN IF next = S THEN S ELSE PlainBfs(g, next)

\* networkx.connected_components, as a set of sets of nodes
RECURSIVE ConnectedComponents(_)
ConnectedComponents(g) ==
  IF g.nodes = {} THEN {}
  ELSE LET v == CHOOSE u \in g.nodes : TRUE
           c == PlainBfs(g, {v})
       IN {c} \cup ConnectedComponents(Subgraph(g, g.nodes \ c))

\* NewIndex.__init__
NewIndexInitOffByOne(num_nodes) == num_nodes

NewIndexInit(num_nodes) == num_nodes - 1

\* NewIndex.__call__ on the state [last, seen]: the index returned and the new state
NewIndexCallNeverSeen(st, index) ==
  [ret |-> index, last |-> st.last, seen |-> st.seen \cup {index}]

NewIndexCall(st, index) ==
  IF index \in st.seen
    THEN [ret |-> st.last + 1, last |-> st.last + 1, seen |-> st.seen]
    ELSE [ret |-> index, last |-> st.last, seen |-> st.seen \cup {index}]

\* the loop over the connected components around node, walked in the given order
RECURSIVE AssignComponents(_, _, _, _)
AssignComponents(order, j, node, st) ==
  IF j > Len(order) THEN st
  ELSE LET r == NewIndexCall([last |-> st.last, seen |-> st.seen], node)
       IN AssignComponents(order, j + 1, node,
            [last |-> r.last, seen |-> r.seen,
             result |-> [k \in {<<cell, node>> : cell \in order[j]} |-> r.ret] @@ st.result])

\* build_new_index = NewIndex(num_points); result = {}
IdentifySplitStart ==
  /\ pc = "identify_start"
  /\ current_last_index' = NewIndexInit(GetNumberOfPoints(mesh))
  /\ seen' = {}
  /\ result' = <<>>
  /\ todo' = DOMAIN node_to_cells
  /\ pc' = "identify"
  /\ UNCHANGED <<input_vars, error, cell_id, cells_to_faces, face_nodes, ntc_keys,
                 node_to_cells, cell_to_cell, collocated_nodes, output_mesh,
                 node_3d_to_node_2d, fracture_mesh>>

\* One iteration of the loop over sorted(node_to_cells.items()).  The order in
\* which connected_components yields the components follows the iteration
\* order of sets of cells: any order.
IdentifySplitStep ==
  /\ pc = "identify"
  /\ todo # {}
  /\ LET node == Sorted(todo)[1]
         comps == ConnectedComponents(Subgraph(cell_to_cell, node_to_cells[node]))
     IN /\ \E order \in Perms(comps) :
             LET st == AssignComponents(order, 1, node,
                         [last |-> current_last_index, seen |-> seen, result |-> result])
             IN /\ current_last_index' = st.last
                /\ seen' = st.seen
                /\ result' = st.result
        /\ todo' = todo \ {node}
  /\ UNCHANGED <<input_vars, pc, error, cell_id, cells_to_faces, face_nodes, ntc_keys,
                 node_to_cells, cell_to_cell, collocated_nodes, output_mesh,
                 node_3d_to_node_2d, fracture_mesh>>

---------------------------------------------------------------------------
(* __perform_polyhedron_split *)

\* node_mapping.get(p, p) for the mapping of cell c
MappedIdOfCellZero(c, p) == IF <<0, p>> \in DOMAIN result THEN result[<<0, p>>] ELSE p

MappedId(c, p) == IF <<c, p>> \in DOMAIN result THEN result[<<c, p>>] ELSE p

\* added_points
AddedPoints(res) == {res[k] : k \in {q \in DOMAIN res : q[2] # res[q]}}

\* the (i, o) items with i != o that write index o, as the set of their i
Sources(res, o) == {k[2] : k \in {q \in DOMAIN res : q[2] # res[q] /\ res[q] = o}}

\* collocated_nodes after the two filling loops (-1 where nothing was written).
\* A new index is returned once by NewIndex, for one node: the items writing
\* index o all carry the same i, whatever the order of the dict.
CollocatedNodesSelf(res, n, num) ==
  [p \in 0..(num - 1) |->
     IF Sources(res, p) # {} THEN p
     ELSE IF p < n THEN p ELSE -1]

CollocatedNodes(res, n, num) ==
  [p \in 0..(num - 1) |->
     IF Sources(res, p) # {} THEN CHOOSE i \in Sources(res, p) : TRUE
     ELSE IF p < n THEN p ELSE -1]

\* new_points after the two filling loops (<<>> where nothing was set)
NewPoints(res, n, num) ==
  [p \in 0..(num - 1) |->
     IF Sources(res, p) # {} THEN mesh.points[CHOOSE i \in Sources(res, p) : TRUE]
     ELSE IF p < n THEN mesh.points[p] ELSE <<>>]

\* the face stream of cell c: every face with its points replaced
ReversedFaces(c) ==
  [f \in 1..GetNumberOfFaces(mesh, c) |->
     [j \in 1..Len(mesh.cells[c][f]) |->
        MappedId(c, mesh.cells[c][f][Len(mesh.cells[c][f]) + 1 - j])]]

SplitCellFaces(c) ==
  [f \in 1..GetNumberOfFaces(mesh, c) |->
     [j \in 1..Len(mesh.cells[c][f]) |-> MappedId(c, mesh.cells[c][f][j])]]

\* __copy_fields, point data: the tuple of collocated_nodes[p] for every new point
CopyPointData(colloc) ==
  [p \in DOMAIN colloc |->
     IF colloc[p] \in DOMAIN mesh.pdata THEN mesh.pdata[colloc[p]] ELSE -1]

\* The whole function.  Writing index o >= num_new_points is an IndexError.
PerformPolyhedronSplit ==
  /\ pc = "identify"
  /\ todo = {}
  /\ LET n == GetNumberOfPoints(mesh)
         num_new_points == n + Cardinality(AddedPoints(result))
     IN IF \E o \in AddedPoints(result) : o >= num_new_points
          THEN /\ Raise("IndexError")
               /\ UNCHANGED <<collocated_nodes, output_mesh>>
          ELSE /\ collocated_nodes' = CollocatedNodes(result, n, num_new_points)
               /\ output_mesh' =
                    [points |-> NewPoints(result, n, num_new_points),
                     cells  |-> [c \in 0..(GetNumberOfCells(mesh) - 1) |-> SplitCellFaces(c)],
                     ctype  |-> [c \in 0..(GetNumberOfCells(mesh) - 1) |-> mesh.ctype[c]],
                     pdata  |-> CopyPointData(collocated_nodes'),
                     cdata  |-> field]
               /\ pc' = "fracture_mesh"
               /\ error' = error
  /\ UNCHANGED <<input_vars, cell_id, cells_to_faces, face_nodes, ntc_keys, node_to_cells,
                 cell_to_cell, todo, current_last_index, seen, result, node_3d_to_node_2d,
                 fracture_mesh>>

---------------------------------------------------------------------------
(* __generate_fracture_mesh *)

\* node_3d_to_node_2d: position in fracture_nodes, from 0
Node3dToNode2d(keys) == [n \in Range(keys) |-> (CHOOSE i \in 1..Len(keys) : keys[i] = n) - 1]

\* the polygon of the face ns
Polygon(n2d, ns) == [i \in 1..Len(ns) |-> n2d[ns[i]]]

\* the 2d node under which the item (i, o) is stored
BucketKey(n2d, i, o) == n2d[Min2(i, o)]

\* what the item (i, o) adds to its bucket
BucketItemOnlyOld(i, o) == {i}

BucketItem(i, o) == {i, o}

\* buckets, as a function over its keys
Buckets(n2d, res) ==
  [k \in {BucketKey(n2d, q[2], res[q]) : q \in DOMAIN res} |->
     UNION {BucketItem(q[2], res[q]) :
              q \in {r \in DOMAIN res : BucketKey(n2d, r[2], res[r]) = k}}]

\* Row i of collocated_nodes receives every value of bucket i once, in columns
\* 0..len-1 in the iteration order of the set, and keeps -1 in the other
\* columns: the row is recorded as the set of the values written and the
\* number of columns left at -1.
CollocatedRow(bucket, width) == [ids |-> bucket, unset |-> width - Cardinality(bucket)]

\* The whole function.  An incomplete bucket index is an AssertionError; max()
\* of no bucket at all is a ValueError.
GenerateFractureMesh ==
  /\ pc = "fracture_mesh"
  /\ LET num_points == Len(ntc_keys)
         n2d == Node3dToNode2d(ntc_keys)
         buckets == Buckets(n2d, result)
     IN /\ node_3d_to_node_2d' = n2d
        /\ IF DOMAIN buckets # 0..(num_points - 1)
             THEN Raise("AssertionError") /\ UNCHANGED fracture_mesh
           ELSE IF DOMAIN buckets = {}
             THEN Raise("ValueError") /\ UNCHANGED fracture_mesh
           ELSE LET max_duplicated_nodes == Max({Cardinality(buckets[k]) : k \in DOMAIN buckets})
                IN /\ fracture_mesh' =
                        [points   |-> [i \in 0..(num_points - 1) |-> mesh.points[ntc_keys[i + 1]]],
                         polygons |-> [j \in 1..Len(face_nodes) |-> Polygon(n2d, face_nodes[j])],
                         ctype    |-> [j \in 1..Len(face_nodes) |-> "polygon"],
                         collocated_nodes |->
                           [k \in 0..(num_points - 1) |->
                              CollocatedRow(buckets[k], max_duplicated_nodes)],
                         width    |-> max_duplicated_nodes]
                   /\ pc' = "done"
                   /\ error' = error
  /\ UNCHANGED <<input_vars, cell_id, cells_to_faces, face_nodes, ntc_keys, node_to_cells,
                 cell_to_cell, todo, current_last_index, seen, result, collocated_nodes,
                 output_mesh>>

---------------------------------------------------------------------------
Next ==
  \/ BuildFractureInfoStart
  \/ ScanCell
  \/ ExtractFaces
  \/ NodeToCellsStep
  \/ BuildCellToCellGraph
  \/ IdentifySplitStart
  \/ IdentifySplitStep
  \/ PerformPolyhedronSplit
  \/ GenerateFractureMesh

Spec == Init /\ [][Next]_vars

---------------------------------------------------------------------------
(* Two runs of __split_mesh_on_fracture on the same mesh and options: the   *)
(* first run's return values are kept and the pipeline starts again.        *)

SecondRun ==
  /\ pc = "done"
  /\ ~first_run.taken
  /\ first_run' = [taken |-> TRUE, cell_to_node_mapping |-> result,
                   output_mesh |-> output_mesh, fracture_mesh |-> fracture_mesh]
  /\ pc' = "start"
  /\ cell_id' = 0
  /\ cells_to_faces' = [c \in 0..(mesh.nc - 1) |-> <<>>]
  /\ face_nodes' = <<>>
  /\ ntc_keys' = <<>>
  /\ node_to_cells' = <<>>
  /\ cell_to_cell' = [nodes |-> {}, edges |-> {}]
  /\ todo' = {}
  /\ current_last_index' = 0
  /\ seen' = {}
  /\ result' = <<>>
  /\ collocated_nodes' = <<>>
  /\ output_mesh' = EmptyMesh
  /\ node_3d_to_node_2d' = <<>>
  /\ fracture_mesh' = EmptyFractureMesh
  /\ UNCHANGED <<mesh, has_field, field, field_values, error>>

InitTwoRuns == Init /\ mesh \in {Fan(2, FALSE), TwoTets} /\ has_field

NextTwoRuns == Next \/ SecondRun

SpecTwoRuns == InitTwoRuns /\ [][NextTwoRuns]_vars

---------------------------------------------------------------------------
(* What the properties below speak of, read from the input mesh alone. *)

Cells == 0..(mesh.nc - 1)

Points == 0..(mesh.np - 1)

CellFaceSets(c) == {Range(mesh.cells[c][j]) : j \in 1..Len(mesh.cells[c])}

AllFaceSets == UNION {CellFaceSets(c) : c \in Cells}

CellsWithFace(h) == {c \in Cells : h \in CellFaceSets(c)}

\* h separates two cells with distinct field values, both in field_values
SeparatesRegions(h) ==
  \E c1, c2 \in CellsWithFace(h) :
    /\ c1 # c2
    /\ field[c1] \in field_values
    /\ field[c2] \in field_values
    /\ field[c1] # field[c2]

ExpectedFractureFaces == {h \in AllFaceSets : SeparatesRegions(h)}

ExpectedFractureNodes == UNION ExpectedFractureFaces

IncidentCells(n) == {c \in Cells : \E h \in CellFaceSets(c) : n \in h}

\* every face is the face of at most two cells
WellFormed == \A h \in AllFaceSets : Cardinality(CellsWithFace(h)) <= 2

\* the pairs of cells that share a face that is not a fracture face
OpenEdges ==
  UNION {{e \in SUBSET CellsWithFace(h) : Cardinality(e) = 2} :
           h \in {g \in AllFaceSets : ~SeparatesRegions(g)}}

\* the cells of I reachable from S through the edges E
RECURSIVE Reach(_, _, _)
Reach(E, I, S) ==
  LET next == S \cup {b \in I : \E a \in S : {a, b} \in E}
  IN IF next = S THEN S ELSE Reach(E, I, next)

\* the connected components around node n: the cells incident to n, grouped
\* by reachability through shared non-fracture faces (E is OpenEdges)
ComponentsAround(E, n) == {Reach(E, IncidentCells(n), {c}) : c \in IncidentCells(n)}

\* the stages reached
FacesReturned == pc \in {"node_to_cells", "identify_start", "identify", "fracture_mesh", "done"}

PlanDone == (pc = "identify" /\ todo = {}) \/ pc \in {"fracture_mesh", "done"}

VolumetricBuilt == pc \in {"fracture_mesh", "done"}

Returned == pc = "done"

---------------------------------------------------------------------------
\* C1: the fracture faces returned by build_fracture_info are exactly the
\* vertex sets of the faces shared by two cells whose field values are both in
\* field_values and differ; no returned face is a boundary face or has an
\* adjacent cell whose value is outside field_values.
C1_FractureFacesExact ==
  FacesReturned =>
    /\ FaceHashes(face_nodes) = ExpectedFractureFaces
    /\ \A j \in 1..Len(face_nodes) :
         /\ Cardinality(CellsWithFace(Range(face_nodes[j]))) >= 2
         /\ \A c \in CellsWithFace(Range(face_nodes[j])) : field[c] \in field_values

\* a fracture was found next to an interior face that is none: one of its cells
\* has a value outside field_values
C1_Witness ==
  /\ FacesReturned
  /\ face_nodes # <<>>
  /\ \E h \in AllFaceSets :
       /\ Cardinality(CellsWithFace(h)) = 2
       /\ \E c1, c2 \in CellsWithFace(h) :
            field[c1] \in field_values /\ field[c2] \notin field_values

\* C2: for every fracture node n with k connected components around it, the
\* split plan gives every incident cell an id for n, equal inside a component
\* and different across components: k distinct ids, one of which is n.
C2_OneIdPerComponent ==
  PlanDone =>
    LET E == OpenEdges
    IN \A n \in ExpectedFractureNodes :
         /\ \A c \in IncidentCells(n) : <<c, n>> \in DOMAIN result
         /\ \A c1, c2 \in IncidentCells(n) :
              (result[<<c1, n>>] = result[<<c2, n>>])
                <=> (c2 \in Reach(E, IncidentCells(n), {c1}))
         /\ Cardinality({result[<<c, n>>] : c \in IncidentCells(n)})
              = Cardinality(ComponentsAround(E, n))
         /\ n \in {result[<<c, n>>] : c \in IncidentCells(n)}

\* a fracture node with several components, one of them of two cells
C2_Witness ==
  /\ PlanDone
  /\ \E n \in ExpectedFractureNodes :
       /\ Cardinality(ComponentsAround(OpenEdges, n)) >= 2
       /\ \E comp \in ComponentsAround(OpenEdges, n) : Cardinality(comp) >= 2

---------------------------------------------------------------------------
\* the points of cell c in the output volumetric mesh
OutCellPoints(c) ==
  UNION {Range(output_mesh.cells[c][f]) : f \in 1..Len(output_mesh.cells[c])}

\* the output cells c1 and c2 share a point that is v or a copy of v
ShareCopyOf(v, c1, c2) ==
  \E x \in OutCellPoints(c1) \cap OutCellPoints(c2) : collocated_nodes[x] = v

SharedInInput(v, c1, c2) == c1 \in IncidentCells(v) /\ c2 \in IncidentCells(v)

\* C3, as stated: two cells of the output mesh share a vertex v iff in the
\* input they shared v and were in the same connected component around v,
\* for every vertex v of the mesh.
C3_SharedIffSameComponent ==
  Returned =>
    LET E == OpenEdges
    IN \A v \in Points : \A c1, c2 \in Cells :
         c1 # c2 =>
           (ShareCopyOf(v, c1, c2)
              <=> (/\ SharedInInput(v, c1, c2)
                   /\ c2 \in Reach(E, IncidentCells(v), {c1})))

\* C3, amended: for a fracture node v, two cells of the output mesh share v
\* or a copy of v iff in the input they shared v and were in the same
\* connected component around v; a vertex that is no fracture node stays
\* shared by exactly the cells that shared it in the input.
C3_SharedIffSameComponentOnFracture ==
  Returned =>
    LET E == OpenEdges
        F == ExpectedFractureNodes
    IN \A v \in Points : \A c1, c2 \in Cells :
         c1 # c2 =>
           (ShareCopyOf(v, c1, c2)
              <=> (/\ SharedInInput(v, c1, c2)
                   /\ v \in F => c2 \in Reach(E, IncidentCells(v), {c1})))

\* around one fracture node: two cells that keep sharing it and two that no
\* longer do
C3_Witness ==
  /\ Returned
  /\ \E v \in ExpectedFractureNodes : \E c1, c2, c3 \in IncidentCells(v) :
       /\ c1 # c2 /\ ShareCopyOf(v, c1, c2)
       /\ c1 # c3 /\ ~ShareCopyOf(v, c1, c3)

\* the number of (node, extra component) pairs over the nodes of S
RECURSIVE ExtraComponents(_, _)
ExtraComponents(E, S) ==
  IF S = {} THEN 0
  ELSE LET n == CHOOSE x \in S : TRUE
       IN (Cardinality(ComponentsAround(E, n)) - 1) + ExtraComponents(E, S \ {n})

\* the replacement ids of the plan: those that differ from the node they replace
ReplacementIds == {result[q] : q \in {r \in DOMAIN result : result[r] # r[2]}}

\* C4: the output volumetric mesh has N plus the number of (fracture node,
\* extra component) pairs points; the replacement ids form the range starting
\* at N, and two (cell, node) entries get the same replacement id only for the
\* same node and the same component around it.
C4_PointCountAndFreshIds ==
  PlanDone =>
    LET E == OpenEdges
        extra == ExtraComponents(E, ExpectedFractureNodes)
        A == ReplacementIds
    IN /\ \A o \in A : o >= mesh.np
       /\ A # {} => mesh.np \in A
       /\ Cardinality(A) = extra
       /\ \A q1, q2 \in DOMAIN result :
            (result[q1] = result[q2] /\ result[q1] \in A) =>
              (q1[2] = q2[2] /\ q2[1] \in Reach(E, IncidentCells(q1[2]), {q1[1]}))
       /\ VolumetricBuilt => Cardinality(DOMAIN output_mesh.points) = mesh.np + extra

\* a node with three components beside nodes with two
C4_Witness ==
  /\ VolumetricBuilt
  /\ \E n \in ExpectedFractureNodes : Cardinality(ComponentsAround(OpenEdges, n)) = 3
  /\ \E n \in ExpectedFractureNodes : Cardinality(ComponentsAround(OpenEdges, n)) = 2
  /\ Cardinality(DOMAIN output_mesh.points) > mesh.np + 2

\* C5: when __perform_polyhedron_split returns, collocated_nodes has one entry
\* per output point; every entry is an input point id (none is -1), entry i is
\* i for i < N, and output point i has the coordinates of input point
\* collocated_nodes[i].
C5_CollocationTableComplete ==
  VolumetricBuilt =>
    /\ DOMAIN collocated_nodes = 0..(mesh.np + Cardinality(ReplacementIds) - 1)
    /\ DOMAIN output_mesh.points = DOMAIN collocated_nodes
    /\ \A i \in DOMAIN collocated_nodes :
         /\ collocated_nodes[i] \in 0..(mesh.np - 1)
         /\ i < mesh.np => collocated_nodes[i] = i
         /\ output_mesh.points[i] = mesh.points[collocated_nodes[i]]

\* two duplicated points were added
C5_Witness ==
  /\ VolumetricBuilt
  /\ Cardinality(ReplacementIds) >= 2
  /\ \E i \in DOMAIN collocated_nodes : i >= mesh.np /\ collocated_nodes[i] # i

---------------------------------------------------------------------------
\* the output volumetric mesh is the input mesh
SameAsInput ==
  /\ output_mesh.points = mesh.points
  /\ output_mesh.cells = mesh.cells
  /\ output_mesh.ctype = mesh.ctype
  /\ output_mesh.pdata = mesh.pdata
  /\ output_mesh.cdata = field

\* C6: on a mesh that has the field and where no face qualifies as a fracture
\* face, the split does not fail, and what it returns is the input mesh and a
\* fracture mesh with 0 points and 0 polygons.
C6_NoFractureReturnsInput ==
  (has_field /\ WellFormed /\ ExpectedFractureFaces = {}) =>
    /\ pc # "failed"
    /\ Returned =>
         /\ SameAsInput
         /\ fracture_mesh.points = <<>>
         /\ fracture_mesh.polygons = <<>>

\* the output point ids that are n or a copy of n
CopiesOf(n) == {x \in DOMAIN collocated_nodes : collocated_nodes[x] = n}

\* C7: row k of "collocated_nodes", k the 2d index of fracture node n, holds
\* exactly the output point ids that are n or a copy of n, the other entries
\* of the row being -1; the width of the table is the largest number of ids in
\* a row.
C7_CollocatedRows ==
  Returned =>
    LET F == ExpectedFractureNodes
    IN /\ DOMAIN node_3d_to_node_2d = F
       /\ DOMAIN fracture_mesh.collocated_nodes = {node_3d_to_node_2d[n] : n \in F}
       /\ \A n \in F :
            LET row == fracture_mesh.collocated_nodes[node_3d_to_node_2d[n]]
            IN /\ row.ids = CopiesOf(n)
               /\ row.ids = {n} \cup {result[q] : q \in {r \in DOMAIN result : r[2] = n}}
               /\ row.unset = fracture_mesh.width - Cardinality(row.ids)
       /\ fracture_mesh.width = Max({Cardinality(CopiesOf(n)) : n \in F})

\* a row of three ids beside a shorter row, padded
C7_Witness ==
  /\ Returned
  /\ \E k \in DOMAIN fracture_mesh.collocated_nodes :
       Cardinality(fracture_mesh.collocated_nodes[k].ids) = 3
  /\ \E k \in DOMAIN fracture_mesh.collocated_nodes :
       fracture_mesh.collocated_nodes[k].unset > 0

\* the id the split plan gives (c, p), or p when the plan has no entry
PlanId(c, p) == IF <<c, p>> \in DOMAIN result THEN result[<<c, p>>] ELSE p

\* C8: every face of every cell of the output volumetric mesh has as many
\* vertices as in the input, in the same order, each replaced by the id the
\* plan gives (cell, vertex), or kept when the plan has no entry; the cells,
\* their order, their types and their numbers of faces are unchanged.
C8_FacesRelabeledInPlace ==
  VolumetricBuilt =>
    /\ DOMAIN output_mesh.cells = Cells
    /\ output_mesh.ctype = mesh.ctype
    /\ \A c \in Cells :
         /\ Len(output_mesh.cells[c]) = Len(mesh.cells[c])
         /\ \A f \in 1..Len(mesh.cells[c]) :
              /\ Len(output_mesh.cells[c][f]) = Len(mesh.cells[c][f])
              /\ \A j \in 1..Len(mesh.cells[c][f]) :
                   output_mesh.cells[c][f][j] = PlanId(c, mesh.cells[c][f][j])

\* a face with a replaced vertex and a kept one
C8_Witness ==
  /\ VolumetricBuilt
  /\ \E c \in Cells : \E f \in 1..Len(mesh.cells[c]) :
       /\ \E j \in 1..Len(mesh.cells[c][f]) :
            output_mesh.cells[c][f][j] # mesh.cells[c][f][j]
       /\ \E j \in 1..Len(mesh.cells[c][f]) :
            output_mesh.cells[c][f][j] = mesh.cells[c][f][j]

\* the tuple of face h first met by the scan: lowest cell, lowest local face
FirstTuple(h) ==
  LET c == CHOOSE a \in CellsWithFace(h) : \A b \in CellsWithFace(h) : a <= b
      f == CHOOSE i \in 1..Len(mesh.cells[c]) :
             /\ Range(mesh.cells[c][i]) = h
             /\ \A j \in 1..Len(mesh.cells[c]) : Range(mesh.cells[c][j]) = h => i <= j
  IN mesh.cells[c][f]

\* C9: the fracture mesh has one polygon per distinct vertex set of a fracture
\* face, and the polygon lists the 2d nodes of the vertices in the order of
\* the first tuple met for that vertex set.
C9_OnePolygonPerFace ==
  Returned =>
    /\ Len(fracture_mesh.polygons) = Cardinality(ExpectedFractureFaces)
    /\ \A j1, j2 \in 1..Len(fracture_mesh.polygons) :
         Range(fracture_mesh.polygons[j1]) = Range(fracture_mesh.polygons[j2]) => j1 = j2
    /\ \A h \in ExpectedFractureFaces :
         \E j \in 1..Len(fracture_mesh.polygons) :
           fracture_mesh.polygons[j]
             = [i \in 1..Len(FirstTuple(h)) |-> node_3d_to_node_2d[FirstTuple(h)[i]]]
    /\ \A j \in 1..Len(fracture_mesh.polygons) : fracture_mesh.ctype[j] = "polygon"

\* two fracture faces, each listed in another order by its second cell
C9_Witness ==
  /\ Returned
  /\ Len(fracture_mesh.polygons) >= 2
  /\ \A h \in ExpectedFractureFaces :
       \E c \in CellsWithFace(h) : \E i \in 1..Len(mesh.cells[c]) :
         Range(mesh.cells[c][i]) = h /\ mesh.cells[c][i] # FirstTuple(h)

\* C10: a second run on the same mesh and options returns what the first run
\* returned: the same replacement id for every (cell, node), the same points,
\* polygons and collocated_nodes rows.
C10_SecondRunEqualsFirst ==
  (first_run.taken /\ Returned) =>
    /\ result = first_run.cell_to_node_mapping
    /\ output_mesh = first_run.output_mesh
    /\ fracture_mesh = first_run.fracture_mesh

---------------------------------------------------------------------------
\* the smallest element of a non-empty set of integers
MinOf(S) == CHOOSE x \in S : \A y \in S : x <= y

\* C11: the nodes are processed in ascending order and, around every fracture
\* node n, the components are walked by smallest cell id: the component of
\* the smallest cell incident to n keeps n, a component whose smallest cell is
\* smaller gets the smaller id, and the fresh ids of a smaller node are
\* smaller than the fresh ids of a larger node.
C11_ComponentsBySmallestCell ==
  PlanDone =>
    LET E == OpenEdges
        F == ExpectedFractureNodes
    IN \A n \in F :
         /\ PlanId(MinOf(IncidentCells(n)), n) = n
         /\ \A c1, c2 \in IncidentCells(n) :
              MinOf(Reach(E, IncidentCells(n), {c1})) < MinOf(Reach(E, IncidentCells(n), {c2}))
                => PlanId(c1, n) < PlanId(c2, n)
         /\ \A m \in F : \A c1 \in IncidentCells(n) : \A c2 \in IncidentCells(m) :
              (n < m /\ PlanId(c1, n) # n /\ PlanId(c2, m) # m)
                => PlanId(c1, n) < PlanId(c2, m)

---------------------------------------------------------------------------
\* the faces that three cells or more have
TripleFaces == {h \in AllFaceSets : Cardinality(CellsWithFace(h)) >= 3}

\* the run ended in the scan of build_fracture_info, at the assertion, or is
\* still in it: no later stage was entered and nothing is returned
StoppedAtScanAssertion ==
  /\ pc \in {"start", "scan", "failed"}
  /\ pc = "failed" => error = "AssertionError"

\* C12 as stated: when some face of the mesh is shared by three cells, the
\* split ends at the assertion of the scan and returns nothing, whatever the
\* field values of the cells around that face.
C12_TripleFaceAlwaysAsserts ==
  (has_field /\ TripleFaces # {}) => StoppedAtScanAssertion

\* C12, amended: when some face of the mesh is shared by three cells and one
\* of these cells has its field value in field_values, the split ends at the
\* assertion of the scan and returns nothing; when no cell around such a face
\* has its value in field_values, the scan raises no assertion.
C12_TripleFaceAssertsWhenScanned ==
  (has_field /\ TripleFaces # {}) =>
    IF \E h \in TripleFaces : \E c \in CellsWithFace(h) : field[c] \in field_values
      THEN StoppedAtScanAssertion
      ELSE ~(pc = "failed" /\ error = "AssertionError" /\ cell_id < GetNumberOfCells(mesh))

\* the assertion ended the scan at the last cell of a face of three cells,
\* the two cells before it having been skipped
C12_Witness ==
  /\ pc = "failed"
  /\ error = "AssertionError"
  /\ \E h \in TripleFaces :
       /\ \E c \in CellsWithFace(h) : field[c] \notin field_values
       /\ cell_id = Max(CellsWithFace(h))

====
